---- MODULE Spec2Model ----
(***************************************************************************)
(* The invoice line-item widget: the useLineItemState hook, the money and  *)
(* VAT helpers it calls, and the LineItem component's validation flag.     *)
(*                                                                         *)
(* Amounts are JavaScript numbers with at most two decimals; the model     *)
(* holds them as integer cents.  A "number | null" is a tuple: <<>> is     *)
(* null and <<c>> is the number c/100.  VAT rates are whole percents.      *)
(* An unrounded Big value is held in millionths (six fractional digits).   *)
(***************************************************************************)
EXTENDS Integers, Sequences, FiniteSets, TLC

VARIABLES
    value,              \* the `value` prop, owned by the parent
    prevValue,          \* useState(value): the value the hook last tracked
    editingField,       \* "net", "gross" or NoField
    editingValue,       \* number | null typed into editingField
    hasUserInteracted,  \* validation flag
    sink,               \* the onChange calls made by the last step
    op,                 \* the operation the last step performed
    rendered,           \* what the last render found: prop changed, edit state
    committed,          \* the last commit, until the next input or new prop
    unconfirmed,        \* the last commit, while the owner has not fed it back
    touched,            \* the user's actions since the owner's last new prop
    calc                \* the last evaluation of a pure helper

vars == <<value, prevValue, editingField, editingValue, hasUserInteracted,
          sink, op, rendered, committed, unconfirmed, touched, calc>>

----------------------------------------------------------------------------
(* Values *)

Null == <<>>
Num(c) == <<c>>
NoField == "null"
None == [none |-> TRUE]

\* constants.ts DEFAULT_VAT_RATES
DEFAULT_VAT_RATES == {0, 5, 10, 15, 21, 25}

LineItemValue(n, g, r) == [net |-> n, gross |-> g, vatRate |-> r]

----------------------------------------------------------------------------
(* utils/money.ts *)

Sgn(x) == IF x < 0 THEN -1 ELSE 1
Abs(x) == IF x < 0 THEN -x ELSE x

\* round2 as Math.round on the cents: ties go up.
round2_mathRound(x) == (x + 5000) \div 10000

\* round2 with ties away from zero (Big.roundHalfUp).
round2_halfUp(x) ==
    LET m == Abs(x)
        q == m \div 10000
        r == m % 10000
    IN  Sgn(x) * (IF r >= 5000 THEN q + 1 ELSE q)

\* new Big(value).round(2, Big.roundHalfEven): x in millionths, result in
\* cents.  big.js rounds the magnitude and keeps the sign.
round2(x) ==
    LET m == Abs(x)
        q == m \div 10000
        r == m % 10000
        up == r > 5000 \/ (r = 5000 /\ q % 2 = 1)
    IN  Sgn(x) * (IF up THEN q + 1 ELSE q)

\* A raw value handed to onChange by the NumberInput: a number (in cents),
\* NaN, or a string of characters.
NumberRaw(c) == [type |-> "number", num |-> c]
NaNRaw == [type |-> "nan"]
StringRaw(t) == [type |-> "string", text |-> t]

Digit == [c \in {"0", "1", "2", "3", "4", "5", "6", "7", "8", "9"} |->
            CASE c = "0" -> 0 [] c = "1" -> 1 [] c = "2" -> 2 [] c = "3" -> 3
              [] c = "4" -> 4 [] c = "5" -> 5 [] c = "6" -> 6 [] c = "7" -> 7
              [] c = "8" -> 8 [] c = "9" -> 9]

IsDigit(c) == c \in DOMAIN Digit

\* The longest prefix of t made of digits.
RECURSIVE DigitRun(_)
DigitRun(t) ==
    IF t # <<>> /\ IsDigit(Head(t)) THEN <<Head(t)>> \o DigitRun(Tail(t))
    ELSE <<>>

RECURSIVE DigitsValue(_, _)
DigitsValue(ds, acc) ==
    IF ds = <<>> THEN acc ELSE DigitsValue(Tail(ds), acc * 10 + Digit[Head(ds)])

\* parseFloat(text) for texts of the form [sign] digits [. digits] followed
\* by anything: the longest numeric prefix, or NaN (<<>>) when there is
\* none.  The result is in cents; the texts of the model carry at most
\* two fractional digits.
parseFloat(t) ==
    LET neg == t # <<>> /\ Head(t) = "-"
        body == IF t # <<>> /\ Head(t) \in {"-", "+"} THEN Tail(t) ELSE t
        ip == DigitRun(body)
        rest == SubSeq(body, Len(ip) + 1, Len(body))
        fp == IF rest # <<>> /\ Head(rest) = "." THEN DigitRun(Tail(rest))
              ELSE <<>>
        fp2 == SubSeq(fp \o <<"0", "0">>, 1, 2)
        mag == DigitsValue(ip, 0) * 100 + DigitsValue(fp2, 0)
    IN  IF ip = <<>> /\ fp = <<>> THEN <<>>
        ELSE <<IF neg THEN -mag ELSE mag>>

\* toNumberOrNull that reads an empty or unparseable input as 0, as
\* Number('') does.
toNumberOrNull_zeroForInvalid(raw) ==
    IF raw.type = "string"
    THEN LET parsed == parseFloat(raw.text)
         IN  IF parsed = <<>> THEN Num(0) ELSE Num(parsed[1])
    ELSE IF raw.type = "nan" THEN Num(0)
    ELSE Num(raw.num)

\* toNumberOrNull: '' and NaN and unparseable text give null.
toNumberOrNull(raw) ==
    IF raw.type = "string" /\ raw.text = <<>> THEN Null
    ELSE IF raw.type = "string"
         THEN LET parsed == parseFloat(raw.text)
              IN  IF parsed = <<>> THEN Null ELSE Num(parsed[1])
    ELSE IF raw.type = "nan" THEN Null
    ELSE Num(raw.num)

----------------------------------------------------------------------------
(* utils/vat.ts *)

\* new Big(1).plus(new Big(vatRate).div(100)), in hundredths.
Multiplier(vatRate) == 100 + vatRate

\* computeGross that rounds every fraction of a cent up.
computeGross_roundsUp(net, vatRate) ==
    -((-(net * Multiplier(vatRate))) \div 100)

\* new Big(net).times(multiplier) is exact: cents times hundredths is
\* ten-thousandths, handed to round2 in millionths.
computeGross(net, vatRate) == round2(net * Multiplier(vatRate) * 100)

\* Big.div: the quotient of two decimals, kept to a fixed number of
\* fractional digits and rounded half-up on the magnitude.  n is in
\* cents, d in hundredths; the result is in millionths.
BigDiv(n, d) ==
    LET m == Abs(n) * 100
        q == m \div d
        r == m % d
        f == (r * 10000) \div d
        rr == (r * 10000) % d
        up == 2 * rr >= d
    IN  Sgn(n) * (q * 10000 + f + (IF up THEN 1 ELSE 0))

\* Big.div throws '[big.js] Division by zero' when the divisor is zero,
\* which is the case of computeNet at the rate -100.
DivisionByZero(vatRate) == Multiplier(vatRate) = 0

\* computeNet that cuts the quotient off at the cent.
computeNet_truncates(gross, vatRate) ==
    Sgn(gross) * ((Abs(gross) * 100) \div Multiplier(vatRate))

computeNet(gross, vatRate) == round2(BigDiv(gross, Multiplier(vatRate)))

\* isGrossValid that takes an empty field for a wrong one.
isGrossValid_nullInvalid(net, gross, vatRate) ==
    IF net = Null \/ gross = Null THEN FALSE
    ELSE gross[1] = computeGross(net[1], vatRate)

\* utils/validation.ts
isGrossValid(net, gross, vatRate) ==
    IF net = Null \/ gross = Null THEN TRUE
    ELSE gross[1] = computeGross(net[1], vatRate)

----------------------------------------------------------------------------
(* hooks/useLineItemState.ts *)

\* The hook's state together with the prop it is rendered with.
Hook == [value |-> value, prevValue |-> prevValue,
         editingField |-> editingField, editingValue |-> editingValue,
         hasUserInteracted |-> hasUserInteracted]

\* What a handler leaves behind: the state after its setState calls and the
\* onChange calls it made.
Result(h, calls) == [hook |-> h, calls |-> calls]

\* A handler that ended with an exception: the setState calls made before
\* the throw, no onChange call.
Thrown(h) == [hook |-> h, calls |-> <<>>, thrown |-> TRUE]

\* computeAmounts that copies the typed amount into the other field.
computeAmounts_copiesSource(source, sourceValue, vatRate) ==
    IF sourceValue = Null THEN [net |-> Null, gross |-> Null]
    ELSE [net |-> sourceValue, gross |-> sourceValue]

\* computeAmounts that reads a cleared field as 0 (Number(null)).
computeAmounts_nullAsZero(source, sourceValue, vatRate) ==
    LET v == IF sourceValue = Null THEN Num(0) ELSE sourceValue
    IN  [net |-> IF source = "net" THEN v
                 ELSE Num(computeNet(v[1], vatRate)),
         gross |-> IF source = "gross" THEN v
                   ELSE Num(computeGross(v[1], vatRate))]

computeAmounts(source, sourceValue, vatRate) ==
    IF sourceValue = Null THEN [net |-> Null, gross |-> Null]
    ELSE [net |-> IF source = "net" THEN sourceValue
                  ELSE Num(computeNet(sourceValue[1], vatRate)),
          gross |-> IF source = "gross" THEN sourceValue
                    ELSE Num(computeGross(sourceValue[1], vatRate))]

\* The comparison the render makes between the prop and prevValue.
valueChanged(v, prev) ==
    v.net # prev.net \/ v.gross # prev.gross \/ v.vatRate # prev.vatRate

\* The render-time adjustment: a prop that differs from prevValue resets
\* the editing state and the validation flag.
\* render that keeps the edit in progress when the prop changes.
render_keepsEdit(h) ==
    IF valueChanged(h.value, h.prevValue)
    THEN [h EXCEPT !.prevValue = h.value,
                   !.hasUserInteracted = FALSE]
    ELSE h

\* render that resets the editing state without tracking the new prop.
render_forgetsPrevValue(h) ==
    IF valueChanged(h.value, h.prevValue)
    THEN [h EXCEPT !.hasUserInteracted = FALSE,
                   !.editingField = NoField,
                   !.editingValue = Null]
    ELSE h

\* render that forgets to reset the validation flag.
render_keepsFlag(h) ==
    IF valueChanged(h.value, h.prevValue)
    THEN [h EXCEPT !.prevValue = h.value,
                   !.editingField = NoField,
                   !.editingValue = Null]
    ELSE h

render(h) ==
    IF valueChanged(h.value, h.prevValue)
    THEN [h EXCEPT !.prevValue = h.value,
                   !.hasUserInteracted = FALSE,
                   !.editingField = NoField,
                   !.editingValue = Null]
    ELSE h

\* Display values.
displayNet(h) == IF h.editingField = "net" THEN h.editingValue ELSE h.value.net
displayGross(h) ==
    IF h.editingField = "gross" THEN h.editingValue ELSE h.value.gross
displayVatRate(h) == h.value.vatRate

\* commit that does not track the value it hands to onChange.
commit_keepsPrevValue(h, newValue) ==
    [hook |-> [h EXCEPT !.editingField = NoField, !.editingValue = Null],
     calls |-> <<newValue>>]

\* commit that leaves the typed value in place.
commit_keepsEditingValue(h, newValue) ==
    [hook |-> [h EXCEPT !.prevValue = newValue, !.editingField = NoField],
     calls |-> <<newValue>>]

commit(h, newValue) ==
    Result([h EXCEPT !.prevValue = newValue,
                     !.editingField = NoField,
                     !.editingValue = Null],
           <<newValue>>)

\* handleNetChange that takes an input for an edit only when the typed
\* value differs from the displayed one.
handleNetChange_onlyIfDiffers(h, val) ==
    IF toNumberOrNull(val) = displayNet(h) THEN [hook |-> h, calls |-> <<>>]
    ELSE [hook |-> [h EXCEPT !.editingField = "net",
                             !.editingValue = toNumberOrNull(val),
                             !.hasUserInteracted = TRUE],
          calls |-> <<>>]

\* handleNetChange that reports every keystroke to the owner.
handleNetChange_notifies(h, val) ==
    [hook |-> [h EXCEPT !.editingField = "net",
                        !.editingValue = toNumberOrNull(val),
                        !.hasUserInteracted = TRUE],
     calls |-> <<LineItemValue(toNumberOrNull(val), h.value.gross,
                               h.value.vatRate)>>]

handleNetChange(h, val) ==
    Result([h EXCEPT !.editingField = "net",
                     !.editingValue = toNumberOrNull(val),
                     !.hasUserInteracted = TRUE],
           <<>>)

\* handleGrossChange that does not mark the interaction.
handleGrossChange_noFlag(h, val) ==
    [hook |-> [h EXCEPT !.editingField = "gross",
                        !.editingValue = toNumberOrNull(val)],
     calls |-> <<>>]

handleGrossChange(h, val) ==
    Result([h EXCEPT !.editingField = "gross",
                     !.editingValue = toNumberOrNull(val),
                     !.hasUserInteracted = TRUE],
           <<>>)

\* handleNetBlur without the dirty check: it recalculates from the
\* displayed net on every blur.
handleNetBlur_noDirtyCheck(h) ==
    LET amounts == computeAmounts("net", displayNet(h), h.value.vatRate)
    IN  commit(h, LineItemValue(amounts.net, amounts.gross, h.value.vatRate))

handleNetBlur(h) ==
    IF h.editingField # "net" THEN Result(h, <<>>)
    ELSE LET amounts == computeAmounts("net", h.editingValue, h.value.vatRate)
         IN  commit(h, LineItemValue(amounts.net, amounts.gross,
                                     h.value.vatRate))

\* handleGrossBlur that catches the error of computeNet and commits the
\* typed gross with no net.
handleGrossBlur_swallowsError(h) ==
    IF h.editingField # "gross" THEN Result(h, <<>>)
    ELSE IF h.editingValue # Null /\ DivisionByZero(h.value.vatRate)
    THEN commit(h, LineItemValue(Null, h.editingValue, h.value.vatRate))
    ELSE LET amounts == computeAmounts("gross", h.editingValue,
                                       h.value.vatRate)
         IN  commit(h, LineItemValue(amounts.net, amounts.gross,
                                     h.value.vatRate))

\* handleGrossBlur that commits the typed gross next to the prop's net.
handleGrossBlur_keepsNet(h) ==
    IF h.editingField # "gross" THEN Result(h, <<>>)
    ELSE IF h.editingValue # Null /\ DivisionByZero(h.value.vatRate)
    THEN Thrown(h)
    ELSE commit(h, LineItemValue(h.value.net, h.editingValue,
                                 h.value.vatRate))

\* computeAmounts('gross', ...) calls computeNet, whose Big.div throws when
\* the divisor is zero: the handler ends there, before commit.
handleGrossBlur(h) ==
    IF h.editingField # "gross" THEN Result(h, <<>>)
    ELSE IF h.editingValue # Null /\ DivisionByZero(h.value.vatRate)
    THEN Thrown(h)
    ELSE LET amounts == computeAmounts("gross", h.editingValue,
                                       h.value.vatRate)
         IN  commit(h, LineItemValue(amounts.net, amounts.gross,
                                     h.value.vatRate))

\* handleVatRateChange that works from the typed gross when gross is the
\* field being edited.
handleVatRateChange_usesTypedGross(h, newRate) ==
    LET h1 == [h EXCEPT !.hasUserInteracted = TRUE]
        currentNet == IF h.editingField = "net" THEN h.editingValue
                      ELSE h.value.net
        newGross == IF h.editingField = "gross" THEN h.editingValue
                    ELSE IF currentNet # Null
                    THEN Num(computeGross(currentNet[1], newRate))
                    ELSE h.value.gross
    IN  commit(h1, LineItemValue(currentNet, newGross, newRate))

\* handleVatRateChange that leaves gross as it was.
handleVatRateChange_keepsGross(h, newRate) ==
    LET h1 == [h EXCEPT !.hasUserInteracted = TRUE]
        currentNet == IF h.editingField = "net" THEN h.editingValue
                      ELSE h.value.net
    IN  commit(h1, LineItemValue(currentNet, h.value.gross, newRate))

\* handleVatRateChange that reads the net from the prop only.
handleVatRateChange_propNet(h, newRate) ==
    LET h1 == [h EXCEPT !.hasUserInteracted = TRUE]
        currentNet == h.value.net
        newGross == IF currentNet # Null
                    THEN Num(computeGross(currentNet[1], newRate))
                    ELSE h.value.gross
    IN  commit(h1, LineItemValue(currentNet, newGross, newRate))

\* handleVatRateChange that clears gross when there is no net.
handleVatRateChange_clearsGross(h, newRate) ==
    LET h1 == [h EXCEPT !.hasUserInteracted = TRUE]
        currentNet == IF h.editingField = "net" THEN h.editingValue
                      ELSE h.value.net
        newGross == IF currentNet # Null
                    THEN Num(computeGross(currentNet[1], newRate))
                    ELSE Null
    IN  commit(h1, LineItemValue(currentNet, newGross, newRate))

handleVatRateChange(h, newRate) ==
    LET h1 == [h EXCEPT !.hasUserInteracted = TRUE]
        currentNet == IF h.editingField = "net" THEN h.editingValue
                      ELSE h.value.net
        newGross == IF currentNet # Null
                    THEN Num(computeGross(currentNet[1], newRate))
                    ELSE h.value.gross
    IN  commit(h1, LineItemValue(currentNet, newGross, newRate))

\* fixGross that commits the loaded gross as it is.
fixGross_keepsGross(h) ==
    IF h.value.net = Null THEN Result(h, <<>>)
    ELSE commit([h EXCEPT !.hasUserInteracted = TRUE], h.value)

fixGross(h) ==
    IF h.value.net = Null THEN Result(h, <<>>)
    ELSE LET correctedGross == computeGross(h.value.net[1], h.value.vatRate)
             h1 == [h EXCEPT !.hasUserInteracted = TRUE]
         IN  commit(h1, LineItemValue(h.value.net, Num(correctedGross),
                                      h.value.vatRate))

\* components/LineItem.tsx
hasInitialDataError ==
    ~hasUserInteracted /\ ~isGrossValid(value.net, value.gross, value.vatRate)

----------------------------------------------------------------------------
(* The widget in its owner *)

\* Amounts the user types and values the owner loads.
TypedAmounts == {10000, 15000}

RawInputs ==
    {NumberRaw(c) : c \in TypedAmounts}
        \cup {StringRaw(<<>>), StringRaw(<<"a", "b", "c">>), NaNRaw,
              StringRaw(<<"1", "2", "1", ".", "0">>)}

\* Rates the user picks in the select.
SelectedRates == {0, 15, 21}

ExternalValues ==
    {LineItemValue(Num(10000), Num(12100), 21),
     LineItemValue(Num(10000), Num(12099), 21),
     LineItemValue(Null, Num(12100), 21),
     LineItemValue(Num(10000), Null, 21),
     LineItemValue(Null, Null, 21),
     LineItemValue(Null, Null, 15),
     LineItemValue(Null, Null, -100)}

\* The operation a step performs, with its argument.
Op(name, arg) == [name |-> name, arg |-> arg]

\* One event: the handler's result, the owner's reaction to onChange (it
\* feeds the committed value back as the prop, or ignores it), and the
\* render that follows.
Step(res, echo, o) ==
    LET h1 == res.hook
        v1 == IF echo /\ res.calls # <<>> THEN res.calls[Len(res.calls)]
              ELSE h1.value
        h2 == [h1 EXCEPT !.value = v1]
        h3 == render(h2)
    IN  /\ value' = h3.value
        /\ prevValue' = h3.prevValue
        /\ editingField' = h3.editingField
        /\ editingValue' = h3.editingValue
        /\ hasUserInteracted' = h3.hasUserInteracted
        /\ sink' = res.calls
        /\ op' = o
        /\ rendered' = [changed |-> valueChanged(h2.value, h2.prevValue),
                        field |-> h2.editingField,
                        interacted |-> h2.hasUserInteracted,
                        was |-> editingField,
                        threw |-> "thrown" \in DOMAIN res]
        /\ committed' = IF res.calls # <<>> THEN res.calls[Len(res.calls)]
                        ELSE IF h1.editingField # NoField
                                \/ valueChanged(h1.value, value) THEN None
                        ELSE committed
        /\ unconfirmed' = IF res.calls # <<>>
                          THEN (IF echo THEN None
                                ELSE res.calls[Len(res.calls)])
                          ELSE IF valueChanged(h1.value, value) THEN None
                          ELSE unconfirmed
        /\ touched' = IF valueChanged(h1.value, value) THEN "none"
                      ELSE IF o.name \in {"netChange", "grossChange"}
                      THEN "typed"
                      ELSE IF o.name \in {"vatRateChange", "fixGross"}
                              /\ res.calls # <<>> /\ touched = "none"
                      THEN "other"
                      ELSE touched
        /\ UNCHANGED calc

Init ==
    /\ value \in ExternalValues
    /\ prevValue = value
    /\ editingField = NoField
    /\ editingValue = Null
    /\ hasUserInteracted = FALSE
    /\ sink = <<>>
    /\ op = Op("mount", Null)
    /\ rendered = [changed |-> FALSE, field |-> NoField, interacted |-> FALSE,
                   was |-> NoField, threw |-> FALSE]
    /\ committed = None
    /\ unconfirmed = None
    /\ touched = "none"
    /\ calc = None

NetChange ==
    \E raw \in RawInputs :
        Step(handleNetChange(Hook, raw), FALSE, Op("netChange", raw))

GrossChange ==
    \E raw \in RawInputs :
        Step(handleGrossChange(Hook, raw), FALSE, Op("grossChange", raw))

NetBlur ==
    \E echo \in BOOLEAN : Step(handleNetBlur(Hook), echo, Op("netBlur", Null))

GrossBlur ==
    \E echo \in BOOLEAN :
        Step(handleGrossBlur(Hook), echo, Op("grossBlur", Null))

VatRateChange ==
    \E newRate \in SelectedRates, echo \in BOOLEAN :
        Step(handleVatRateChange(Hook, newRate), echo,
             Op("vatRateChange", Num(newRate)))

FixGross ==
    \E echo \in BOOLEAN : Step(fixGross(Hook), echo, Op("fixGross", Null))

\* The owner renders the widget with a prop of its own: loaded data, or the
\* prop it already gave.
ExternalValue ==
    \E v \in ExternalValues \cup {value} :
        Step(Result([Hook EXCEPT !.value = v], <<>>), FALSE,
             Op("external", Null))

\* The owner feeds the widget's last commit back late: it ignored the
\* onChange call when it was made (an asynchronous save), and the user may
\* have gone on typing.
LateConfirmation ==
    /\ unconfirmed # None
    /\ Step(Result([Hook EXCEPT !.value = unconfirmed], <<>>), FALSE,
            Op("confirm", Null))

Next ==
    \/ NetChange
    \/ GrossChange
    \/ NetBlur
    \/ GrossBlur
    \/ VatRateChange
    \/ FixGross
    \/ ExternalValue
    \/ LateConfirmation

Spec == Init /\ [][Next]_vars

----------------------------------------------------------------------------
(* The pure helpers, evaluated on their own *)

\* Amounts in cents: every amount up to MaxCents on either side of zero,
\* and the amounts of the unit tests.
MaxCents == 100

PureAmounts ==
    (-MaxCents .. MaxCents)
        \cup {3333, 9999, 10000, -10000, 12099, 12100, 15000, 20000}

NullableAmounts == {Null} \cup {Num(c) : c \in {9999, 10000, 12099, 12100}}

Evaluation(fn, args, out) == [fn |-> fn, args |-> args, out |-> out]

EvalComputeGross ==
    \E net \in PureAmounts, vatRate \in DEFAULT_VAT_RATES :
        /\ calc' = Evaluation("computeGross", <<net, vatRate>>,
                              computeGross(net, vatRate))
        /\ UNCHANGED <<value, prevValue, editingField, editingValue,
                       hasUserInteracted, sink, op, rendered, committed,
                       unconfirmed, touched>>

EvalComputeNet ==
    \E gross \in PureAmounts, vatRate \in DEFAULT_VAT_RATES :
        /\ calc' = Evaluation("computeNet", <<gross, vatRate>>,
                              computeNet(gross, vatRate))
        /\ UNCHANGED <<value, prevValue, editingField, editingValue,
                       hasUserInteracted, sink, op, rendered, committed,
                       unconfirmed, touched>>

EvalIsGrossValid ==
    \E net \in NullableAmounts, gross \in NullableAmounts,
       vatRate \in DEFAULT_VAT_RATES :
        /\ calc' = Evaluation("isGrossValid", <<net, gross, vatRate>>,
                              isGrossValid(net, gross, vatRate))
        /\ UNCHANGED <<value, prevValue, editingField, editingValue,
                       hasUserInteracted, sink, op, rendered, committed,
                       unconfirmed, touched>>

\* Values handed to round2, in millionths: every thousandth up to
\* MaxMills on either side of zero, some values next to a tie, and the
\* values of the unit tests.
MaxMills == 120

Round2Inputs ==
    {m * 1000 : m \in -MaxMills .. MaxMills}
        \cup {4999, 5001, -5001, 14999, 15001}
        \cup {2225000, 2235000, 2245000, 2255000, 10004000, 10005000,
              100000000}

EvalRound2 ==
    \E x \in Round2Inputs :
        /\ calc' = Evaluation("round2", <<x>>, round2(x))
        /\ UNCHANGED <<value, prevValue, editingField, editingValue,
                       hasUserInteracted, sink, op, rendered, committed,
                       unconfirmed, touched>>

\* computeNet applied to the result of computeGross, at the same rate.
EvalRoundTrip ==
    \E net \in PureAmounts, vatRate \in DEFAULT_VAT_RATES :
        /\ calc' = Evaluation("roundTrip", <<net, vatRate>>,
                              computeNet(computeGross(net, vatRate), vatRate))
        /\ UNCHANGED <<value, prevValue, editingField, editingValue,
                       hasUserInteracted, sink, op, rendered, committed,
                       unconfirmed, touched>>

PureNext ==
    \/ EvalComputeGross
    \/ EvalComputeNet
    \/ EvalIsGrossValid
    \/ EvalRound2
    \/ EvalRoundTrip

\* The helpers read no state: the widget stays as it was mounted.
PureInit == Init /\ value = LineItemValue(Null, Null, 21)

PureSpec == PureInit /\ [][PureNext]_vars

----------------------------------------------------------------------------
(* Properties *)

ProgramState ==
    <<value, prevValue, editingField, editingValue, hasUserInteracted>>

IsBlurOf(f) == op'.name = (IF f = "net" THEN "netBlur" ELSE "grossBlur")

\* C1: a blur of net or gross while that field is not the one being edited
\* (also when no field is edited) makes no onChange call and changes no
\* state; so once a value is committed, blurs with no input in between
\* make no further onChange call.
C1_BlurWithoutEditIsNoOp ==
    [][\A f \in {"net", "gross"} :
          /\ (IsBlurOf(f) /\ editingField # f)
                => (sink' = <<>> /\ UNCHANGED ProgramState)
          /\ (IsBlurOf(f) /\ committed # None) => sink' = <<>>]_vars

C1_Witness ==
    /\ op.name = "grossBlur"
    /\ sink = <<>>
    /\ committed # None
    /\ committed.gross # Null

\* C2: a blur of the field being edited, with a typed value x that is not
\* null, at rate r, commits {x, computeGross(x, r), r} for net and
\* {computeNet(x, r), x, r} for gross (where computeNet has a value: the
\* rate is not -100).
C2_BlurCommitsTypedValue ==
    [][/\ (op'.name = "netBlur" /\ editingField = "net"
              /\ editingValue # Null)
            => sink' = <<LineItemValue(
                           editingValue,
                           Num(computeGross(editingValue[1], value.vatRate)),
                           value.vatRate)>>
       /\ (op'.name = "grossBlur" /\ editingField = "gross"
              /\ editingValue # Null /\ ~DivisionByZero(value.vatRate))
            => sink' = <<LineItemValue(
                           Num(computeNet(editingValue[1], value.vatRate)),
                           editingValue,
                           value.vatRate)>>]_vars

C2_Witness ==
    /\ op.name = "grossBlur"
    /\ sink # <<>>
    /\ sink[1] = LineItemValue(Num(13043), Num(15000), 15)

C4_ClearedFieldClearsBoth ==
    [][\A f \in {"net", "gross"} :
          (IsBlurOf(f) /\ editingField = f /\ editingValue = Null)
            => sink' = <<LineItemValue(Null, Null, value.vatRate)>>]_vars

\* Gross was cleared while the prop held a net.
C4_Witness ==
    /\ op.name = "grossBlur"
    /\ sink # <<>>
    /\ sink[1].net = Null /\ sink[1].gross = Null
    /\ value.net # Null

\* C5: a VAT rate change while the current net is null commits
\* {null, the prop's gross, newRate}: nothing is computed.
C5_RateChangeWithoutNet ==
    [][(op'.name = "vatRateChange" /\ displayNet(Hook) = Null)
          => sink' = <<LineItemValue(Null, value.gross, op'.arg[1])>>]_vars

C5_Witness ==
    /\ op.name = "vatRateChange"
    /\ sink = <<LineItemValue(Null, Num(12100), 0)>>

\* The steps that are commit points.
IsCommitPoint ==
    \/ op'.name = "netBlur" /\ editingField = "net"
    \/ /\ op'.name = "grossBlur" /\ editingField = "gross"
       /\ ~(editingValue # Null /\ DivisionByZero(value.vatRate))
    \/ op'.name = "vatRateChange"
    \/ op'.name = "fixGross" /\ value.net # Null

\* C6: every commit point (a blur of the field being edited, any VAT rate
\* change, fixGross with a net) calls onChange exactly once and leaves
\* the editing state at {field: null, value: null}.  A gross blur at the
\* rate -100 ends with an exception before it commits: it is no commit
\* point.
C6_CommitCallsOnceAndClearsEdit ==
    [][IsCommitPoint
          => /\ Len(sink') = 1
             /\ editingField' = NoField
             /\ editingValue' = Null]_vars

\* A commit made while a value was typed, fed back by the owner.
C6_Witness ==
    /\ op.name = "vatRateChange"
    /\ Len(sink) = 1
    /\ sink[1].net # Null
    /\ value = sink[1]
    /\ hasUserInteracted

\* C7: no onChange call is made by mounting, by a field input or by the
\* receipt of an external value.
C7_OnlyCommitsCallOnChange ==
    op.name \in {"mount", "netChange", "grossChange", "external", "confirm"}
        => sink = <<>>

C7_Witness ==
    /\ op.name = "netChange"
    /\ editingField = "net"
    /\ editingValue # Null
    /\ ~isGrossValid(value.net, value.gross, value.vatRate)

\* C8: after a commit of v the displayed net, gross and rate are those of
\* v until the next input or new external value, also when the owner does
\* not feed v back.
C8_CommittedValueStaysDisplayed ==
    (committed # None /\ editingField = NoField)
        => /\ displayNet(Hook) = committed.net
           /\ displayGross(Hook) = committed.gross
           /\ displayVatRate(Hook) = committed.vatRate

\* C9: a rate change or fix that follows a commit, with no input or new
\* external value in between, works from the committed net, whether or
\* not the owner fed the commit back.
C9_NextCommitUsesLastCommit ==
    [][(committed # None /\ op'.name \in {"vatRateChange", "fixGross"}
          /\ committed.net # Null)
          => /\ Len(sink') = 1
             /\ sink'[1].net = committed.net
             /\ sink'[1].gross =
                  Num(computeGross(committed.net[1], sink'[1].vatRate))]_vars

C11_SameExternalValueChangesNothing ==
    [][(op'.name \in {"external", "confirm"}
           /\ ~valueChanged(value', prevValue))
          => (sink' = <<>> /\ UNCHANGED ProgramState)]_vars

\* The same value arrived while a typed amount was in the field.
C11_Witness ==
    /\ op.name = "external"
    /\ ~rendered.changed
    /\ editingField # NoField
    /\ editingValue # Null
    /\ hasUserInteracted

\* C12: an edit in progress is never discarded by the arrival of the
\* widget's own last commit: the user commits v, starts typing, and only
\* then the owner supplies v; the typed value stays in its field (so that
\* a following blur commits it).
C12_LateConfirmationKeepsEdit ==
    [][(op'.name = "confirm" /\ editingField # NoField)
          => (editingField' = editingField
                /\ editingValue' = editingValue)]_vars

\* C12, as the hook behaves: the late arrival of the last commit v drops
\* the edit in progress whenever v differs from the prop the widget had;
\* the fields then show v and a following blur commits nothing.  The edit
\* is kept only when v equals, field by field, the prop the widget had.
C12_LateConfirmationDropsEdit ==
    [][/\ (op'.name = "confirm" /\ editingField # NoField)
            => IF valueChanged(unconfirmed, value)
               THEN /\ editingField' = NoField
                    /\ editingValue' = Null
                    /\ value' = unconfirmed
                    /\ sink' = <<>>
               ELSE /\ editingField' = editingField
                    /\ editingValue' = editingValue
       /\ (op.name = "confirm" /\ rendered.changed
              /\ op'.name \in {"netBlur", "grossBlur"})
            => sink' = <<>>]_vars

\* The last commit arrived, as a new prop, while a field was being edited.
C12_Witness ==
    /\ op.name = "confirm"
    /\ rendered.changed
    /\ rendered.field # NoField
    /\ rendered.interacted
    /\ editingField = NoField

\* C13: in every state hasInitialDataError is true exactly when the user
\* has done nothing since the owner's last new value and that value, the
\* prop, has a net and a gross with gross # computeGross(net, vatRate).
C13_ErrorIffUntouchedAndInconsistent ==
    hasInitialDataError
        <=> /\ touched = "none"
            /\ value.net # Null
            /\ value.gross # Null
            /\ value.gross[1] # computeGross(value.net[1], value.vatRate)

\* C14: once the user has typed in a field, hasInitialDataError is false,
\* and it stays false through inputs, blurs and commits until the owner
\* supplies a new value.
C14_NoErrorAfterInput ==
    touched = "typed" => ~hasInitialDataError

\* C15: fixGross, called while net is not being edited (the current net is
\* then the prop's), commits exactly {net, computeGross(net, rate), rate}
\* when that net is not null; when it is null, fixGross calls nothing and
\* changes no state.
C15_FixCommitsRecomputedGross ==
    [][(op'.name = "fixGross" /\ editingField # "net")
          => IF displayNet(Hook) # Null
             THEN sink' = <<LineItemValue(
                              displayNet(Hook),
                              Num(computeGross(displayNet(Hook)[1],
                                               displayVatRate(Hook))),
                              displayVatRate(Hook))>>
             ELSE sink' = <<>> /\ UNCHANGED ProgramState]_vars

\* The loaded gross was wrong and fixGross replaced it.
C15_Witness ==
    /\ op.name = "fixGross"
    /\ sink = <<LineItemValue(Num(10000), Num(12100), 21)>>
    /\ rendered.interacted
    /\ value.gross = Num(12099) \/ value = sink[1]

\* C16: when inconsistent data is loaded and fixGross is called, the error
\* is gone in the state that follows and does not come back, whether or
\* not the owner feeds the fixed value back.
C16_NoErrorAfterFix ==
    [][(hasInitialDataError /\ op'.name = "fixGross")
          => ~hasInitialDataError']_vars

\* C17: every committed value whose net and gross are both not null
\* satisfies gross = computeGross(net, vatRate).
C17_CommitsAreConsistent ==
    (sink # <<>> /\ sink[1].net # Null /\ sink[1].gross # Null)
        => sink[1].gross[1] = computeGross(sink[1].net[1], sink[1].vatRate)

\* C17, as the hook behaves: a value committed by a net blur, a rate change
\* or fixGross with net and gross both not null satisfies
\* gross = computeGross(net, vatRate); one committed by a gross blur
\* satisfies net = computeNet(gross, vatRate) instead, and its gross may
\* differ from computeGross(net, vatRate).
C17_CommitsFollowTheirSource ==
    (sink # <<>> /\ sink[1].net # Null /\ sink[1].gross # Null)
        => IF op.name = "grossBlur"
           THEN sink[1].net[1] = computeNet(sink[1].gross[1], sink[1].vatRate)
           ELSE sink[1].gross[1] =
                    computeGross(sink[1].net[1], sink[1].vatRate)

\* A gross blur committed a gross that its net does not give back.
C17_Witness ==
    /\ op.name = "grossBlur"
    /\ sink # <<>>
    /\ sink[1].net # Null
    /\ sink[1].gross # Null
    /\ sink[1].gross[1] # computeGross(sink[1].net[1], sink[1].vatRate)

\* The evaluation of fn on args, when it is the last one made.
Evaluated(fn, args) ==
    calc # None /\ calc.fn = fn /\ calc.args = args

\* C18: isGrossValid(net, gross, vatRate) is true exactly when net is null,
\* or gross is null, or gross = computeGross(net, vatRate); it is true for
\* (100, 121, 21) and (null, 120.99, 21), false for (100, 120.99, 21).
C18_IsGrossValidMeaning ==
    /\ (calc # None /\ calc.fn = "isGrossValid")
          => LET net == calc.args[1]
                 gross == calc.args[2]
                 vatRate == calc.args[3]
             IN  calc.out <=> \/ net = Null
                              \/ gross = Null
                              \/ gross = Num(computeGross(net[1], vatRate))
    /\ Evaluated("isGrossValid", <<Num(10000), Num(12100), 21>>) => calc.out
    /\ Evaluated("isGrossValid", <<Num(10000), Num(12099), 21>>) => ~calc.out
    /\ Evaluated("isGrossValid", <<Null, Num(12099), 21>>) => calc.out

C18_Witness ==
    /\ calc # None
    /\ calc.fn = "isGrossValid"
    /\ calc.args[1] # Null
    /\ calc.args[2] = Num(12099)
    /\ ~calc.out

\* num / den rounded to the nearest integer, ties to the even one.
HalfEvenQuotient(num, den) ==
    LET q == num \div den
        rem == num % den
    IN  IF 2 * rem > den THEN q + 1
        ELSE IF 2 * rem < den THEN q
        ELSE IF q % 2 = 0 THEN q ELSE q + 1

\* C19: computeGross(net, vatRate) is net * (1 + vatRate/100) rounded to
\* the cent, ties to even, for every amount in cents (negative and zero
\* too) and every rate of the select; at rate 0 it is net; and it gives
\* (100, 21) = 121, (99.99, 21) = 120.99, (0.01, 21) = 0.01,
\* (33.33, 21) = 40.33, (-100, 21) = -121.
C19_ComputeGrossIsHalfEven ==
    /\ (calc # None /\ calc.fn = "computeGross")
          => LET net == calc.args[1]
                 vatRate == calc.args[2]
             IN  /\ calc.out = HalfEvenQuotient(net * (100 + vatRate), 100)
                 /\ vatRate = 0 => calc.out = net
    /\ Evaluated("computeGross", <<10000, 21>>) => calc.out = 12100
    /\ Evaluated("computeGross", <<9999, 21>>) => calc.out = 12099
    /\ Evaluated("computeGross", <<1, 21>>) => calc.out = 1
    /\ Evaluated("computeGross", <<3333, 21>>) => calc.out = 4033
    /\ Evaluated("computeGross", <<-10000, 21>>) => calc.out = -12100

\* A negative amount whose gross falls on a tie: -0.30 at 5% is -0.315.
C19_Witness ==
    /\ Evaluated("computeGross", <<-30, 5>>)
    /\ calc.out = -32

\* C20: computeNet(gross, vatRate) is gross / (1 + vatRate/100) rounded to
\* the cent, ties to even; at rate 0 it is gross; and it gives
\* (121, 21) = 100, (100, 21) = 82.64, (150, 15) = 130.43,
\* (200, 21) = 165.29.
C20_ComputeNetIsHalfEven ==
    /\ (calc # None /\ calc.fn = "computeNet")
          => LET gross == calc.args[1]
                 vatRate == calc.args[2]
             IN  /\ calc.out = HalfEvenQuotient(gross * 100, 100 + vatRate)
                 /\ vatRate = 0 => calc.out = gross
    /\ Evaluated("computeNet", <<12100, 21>>) => calc.out = 10000
    /\ Evaluated("computeNet", <<10000, 21>>) => calc.out = 8264
    /\ Evaluated("computeNet", <<15000, 15>>) => calc.out = 13043
    /\ Evaluated("computeNet", <<20000, 21>>) => calc.out = 16529

\* A quotient that is rounded up: 150 / 1.15 = 130.4347...
C20_Witness ==
    /\ Evaluated("computeNet", <<15000, 15>>)
    /\ calc.out = 13043

C22_RepeatedRateChangeCommitsSame ==
    [][(op.name = "vatRateChange" /\ op'.name = "vatRateChange"
          /\ op'.arg = op.arg)
          => sink' = sink]_vars

\* C23: a field counts as edited because an input occurred, not because
\* its value differs: an input of the value already displayed, followed by
\* a blur of that field, commits and recomputes the other field.
C23_SameValueInputStillCommits ==
    [][/\ (op.name = "netChange" /\ op'.name = "netBlur"
              /\ value.net # Null /\ toNumberOrNull(op.arg) = value.net)
            => sink' = <<LineItemValue(
                           value.net,
                           Num(computeGross(value.net[1], value.vatRate)),
                           value.vatRate)>>
       /\ (op.name = "grossChange" /\ op'.name = "grossBlur"
              /\ value.gross # Null /\ toNumberOrNull(op.arg) = value.gross
              /\ ~DivisionByZero(value.vatRate))
            => sink' = <<LineItemValue(
                           Num(computeNet(value.gross[1], value.vatRate)),
                           value.gross,
                           value.vatRate)>>]_vars

\* Loaded {100, null, 21}: net 100 was typed again and the blur gave the
\* gross 121 that the owner had not supplied.
C23_Witness ==
    /\ op.name = "netBlur"
    /\ rendered.was = "net"
    /\ value = LineItemValue(Num(10000), Null, 21)
    /\ sink = <<LineItemValue(Num(10000), Num(12100), 21)>>

C25_DivisionByZeroFailsTheCommit ==
    [][(op'.name = "grossBlur" /\ editingField = "gross"
          /\ editingValue # Null /\ value.vatRate = -100)
          => /\ rendered'.threw
             /\ sink' = <<>>
             /\ UNCHANGED ProgramState]_vars

C25_Witness ==
    /\ op.name = "grossBlur"
    /\ rendered.threw
    /\ value.vatRate = -100
    /\ editingField = "gross"
    /\ editingValue = Num(15000)

C27_EditingImpliesInteracted ==
    /\ editingField # NoField => hasUserInteracted
    /\ editingField # NoField => ~hasInitialDataError
    /\ hasInitialDataError => displayNet(Hook) = value.net

\* A net is being typed over loaded data whose gross is wrong.
C27_Witness ==
    /\ editingField = "net"
    /\ editingValue # value.net
    /\ hasUserInteracted
    /\ ~isGrossValid(value.net, value.gross, value.vatRate)

\* Net and gross are both empty or both filled.
Paired(v) == (v.net = Null) <=> (v.gross = Null)

\* C28: when the value the widget is given has net and gross both null or
\* both not null, every value it passes to onChange has them both null or
\* both not null.
C28_CommitsArePaired ==
    [][(Paired(value) /\ sink' # <<>>) => Paired(sink'[1])]_vars

\* C28, as the hook behaves: the same, except for a VAT rate change made
\* while the net field is being edited and holds no number; it commits
\* {null, the prop's gross, newRate}, which has a gross and no net when the
\* prop has a gross.
C28_CommitsArePairedButClearedNet ==
    [][(Paired(value) /\ sink' # <<>>)
          => IF op'.name = "vatRateChange" /\ editingField = "net"
                /\ editingValue = Null
             THEN sink' = <<LineItemValue(Null, value.gross, op'.arg[1])>>
             ELSE Paired(sink'[1])]_vars

\* The net of a complete item was cleared, not blurred, and the rate
\* changed: the commit has a gross and no net.
C28_Witness ==
    /\ op.name = "vatRateChange"
    /\ rendered.was = "net"
    /\ sink # <<>>
    /\ sink[1].net = Null
    /\ sink[1].gross = Num(12100)

\* C29: a VAT rate change made while gross is being edited does not use
\* the typed gross: it commits computeGross(net, newRate) when the net is
\* not null and the prop's gross otherwise; the edit ends, so a blur of
\* gross right after it commits nothing.
C29_RateChangeDropsTypedGross ==
    [][/\ (op'.name = "vatRateChange" /\ editingField = "gross")
            => /\ sink' = <<LineItemValue(
                              value.net,
                              IF value.net # Null
                              THEN Num(computeGross(value.net[1],
                                                    op'.arg[1]))
                              ELSE value.gross,
                              op'.arg[1])>>
               /\ editingField' = NoField
               /\ editingValue' = Null
       /\ (op.name = "vatRateChange" /\ op'.name = "grossBlur")
            => sink' = <<>>]_vars

\* A gross was typed over a loaded net and the rate change recomputed the
\* gross from that net.
C29_Witness ==
    /\ op.name = "vatRateChange"
    /\ rendered.was = "gross"
    /\ sink # <<>>
    /\ sink[1] = LineItemValue(Num(10000), Num(11500), 15)

\* C30: for every amount in cents (negative and zero too) and every rate
\* of the select, computeNet(computeGross(net, vatRate), vatRate) = net.
C30_NetGrossNetRoundTrip ==
    (calc # None /\ calc.fn = "roundTrip") => calc.out = calc.args[1]

\* 33.33 at 21% is 40.3293, rounded to 40.33; the way back gives 33.33.
C30_Witness ==
    /\ Evaluated("roundTrip", <<3333, 21>>)
    /\ computeGross(3333, 21) = 4033
    /\ calc.out = 3333

====
